---------------------------- MODULE Spec2Model ----------------------------
(***************************************************************************)
(* A model of loco_mujoco/environments/base.py (class BaseEnv): the        *)
(* constructor, trajectory loading, episode initialisation (setup), the    *)
(* observation pipeline, action un-normalisation and reward dispatch.      *)
(*                                                                         *)
(* Python values are modelled as follows.                                  *)
(*   - None / a value: the empty sequence None / the one-element sequence  *)
(*     Some(x), so that None and 0 stay different values.                  *)
(*   - a numpy 1-D array: a sequence of integers.                          *)
(*   - one element of a sample handed to set_sim_state: a cell             *)
(*     [ndim, v], ndim being len(value.shape) (0 for a scalar, 2 for a     *)
(*     rotation matrix) and v its content.                                 *)
(*   - a raised exception: the field exc of the call's record (NoExc when  *)
(*     the call returned).                                                 *)
(*   - float64 arithmetic of the action normalisation: binary floating     *)
(*     point with round-to-nearest-even, at a mantissa of Precision bits.  *)
(***************************************************************************)
EXTENDS Integers, Sequences, FiniteSets, TLC

(***************************************************************************)
(* Bounds of the model.                                                    *)
(***************************************************************************)
\* fixed init steps 0..MaxInitStep are tried
MaxInitStep == 5
\* observation entries take the values 1..MaxObsValue (0 is the default state)
MaxObsValue == 2
\* mantissa bits of the modelled binary floating point (float64 has 53)
Precision == 3
\* native actuator bounds are the floats among -4*MaxActBound .. 4*MaxActBound
MaxActBound == 5

(***************************************************************************)
(* Python's None and exceptions.                                           *)
(***************************************************************************)
None == <<>>
Some(x) == <<x>>
IsNone(o) == o = <<>>
Val(o) == o[1]

NoExc == "none"
ValueError == "ValueError"
AssertionError == "AssertionError"
AttributeError == "AttributeError"
KeyError == "KeyError"
TypeError == "TypeError"
NotImplementedError == "NotImplementedError"

(***************************************************************************)
(* Sequence helpers: Python slices and concatenation.                      *)
(***************************************************************************)
\* seq[n:]
SliceFrom(seq, n) == IF Len(seq) <= n THEN <<>> ELSE SubSeq(seq, n + 1, Len(seq))
\* seq[:n]
SliceTo(seq, n) == IF Len(seq) <= n THEN seq ELSE SubSeq(seq, 1, n)
\* a sequence of n copies of x
Repeat(x, n) == [i \in 1..n |-> x]
\* the number of occurrences of e in seq
Count(seq, e) == Cardinality({i \in 1..Len(seq) : seq[i] = e})
\* the position of the first occurrence of e in seq (0 when absent)
FirstPos(seq, e) ==
    IF \E i \in 1..Len(seq) : seq[i] = e
    THEN CHOOSE i \in 1..Len(seq) : seq[i] = e /\ \A j \in 1..(i - 1) : seq[j] # e
    ELSE 0

(***************************************************************************)
(* Observation specifications: ordered lists of (key, name, type).         *)
(***************************************************************************)
JOINT_POS == "JOINT_POS"
JOINT_VEL == "JOINT_VEL"
SITE_ROT == "SITE_ROT"
BODY_POS == "BODY_POS"

Entry(key, name, ot) == [key |-> key, name |-> name, ot |-> ot]

\* planar walker: x, y, one hinge position, the pelvis-x velocity
SpecPlanar ==
    << Entry("q_pelvis_tx", "pelvis_tx", JOINT_POS),
       Entry("q_pelvis_tz", "pelvis_tz", JOINT_POS),
       Entry("q_hip", "hip", JOINT_POS),
       Entry("dq_pelvis_tx", "pelvis_tx", JOINT_VEL) >>
\* a specification with a site rotation between two joint channels
SpecWithSite ==
    << Entry("q_pelvis_tx", "pelvis_tx", JOINT_POS),
       Entry("q_pelvis_tz", "pelvis_tz", JOINT_POS),
       Entry("q_hip", "hip", JOINT_POS),
       Entry("rot_torso", "torso", SITE_ROT),
       Entry("dq_hip", "hip", JOINT_VEL) >>
\* a specification whose keys are named differently and that observes a
\* body position, a type set_sim_state does not handle
SpecOtherKeys ==
    << Entry("q_x", "pelvis_tx", JOINT_POS),
       Entry("q_z", "pelvis_tz", JOINT_POS),
       Entry("com_torso", "torso", BODY_POS),
       Entry("dq_hip", "hip", JOINT_VEL) >>
\* a specification whose pelvis velocity is read from a joint with more than
\* one degree of freedom
SpecWideJoint ==
    << Entry("q_pelvis_tx", "pelvis_tx", JOINT_POS),
       Entry("q_pelvis_tz", "pelvis_tz", JOINT_POS),
       Entry("dq_pelvis_tx", "root", JOINT_VEL),
       Entry("q_hip", "hip", JOINT_POS) >>

Names == {"pelvis_tx", "pelvis_tz", "hip", "torso", "root"}
Fields == {"qpos", "qvel", "xmat", "xpos"}

\* the number of flat observation slots the simulator gives an entry: one
\* for a hinge or slide joint, more for a joint with several degrees of
\* freedom
ObsWidth(e) == IF e.name = "root" THEN 2 ELSE 1

RECURSIVE FlatLen(_)
FlatLen(spec) == IF spec = <<>> THEN 0 ELSE ObsWidth(Head(spec)) + FlatLen(Tail(spec))

\* obs_helper.obs_idx_map[key]: the flat indices (0-based) of the entries
\* with that key; KeyError when no entry has it
RECURSIVE ObsIdxOf(_, _, _)
ObsIdxOf(spec, key, start) ==
    IF spec = <<>> THEN <<>>
    ELSE (IF Head(spec).key = key
          THEN [i \in 1..ObsWidth(Head(spec)) |-> start + i - 1]
          ELSE <<>>)
         \o ObsIdxOf(Tail(spec), key, start + ObsWidth(Head(spec)))

HasKey(spec, key) == \E i \in 1..Len(spec) : spec[i].key = key

(***************************************************************************)
(* The simulator's data: a cell per named entity and field.                *)
(***************************************************************************)
Cell(ndim, v) == [ndim |-> ndim, v |-> v]
Scalar(v) == Cell(0, v)
Matrix(v) == Cell(2, v)

FieldOf(ot) ==
    IF ot = JOINT_POS THEN "qpos"
    ELSE IF ot = JOINT_VEL THEN "qvel"
    ELSE IF ot = SITE_ROT THEN "xmat"
    ELSE "xpos"

DefaultData == [n \in Names, f \in Fields |-> IF f = "xmat" THEN Matrix(0) ELSE Scalar(0)]

\* obs_helper._build_obs(self._data): the simulator state in the flat layout
\* of the observation specification
RECURSIVE BuildObs(_, _)
BuildObs(spec, d) ==
    IF spec = <<>> THEN <<>>
    ELSE Repeat(d[Head(spec).name, FieldOf(Head(spec).ot)].v, ObsWidth(Head(spec)))
         \o BuildObs(Tail(spec), d)


(***************************************************************************)
(* set_sim_state and _init_sim_from_obs.  A call's result is the data it   *)
(* leaves behind, the exception it raised and the trace of its effects.    *)
(***************************************************************************)
Result(d, exc, trace) == [data |-> d, exc |-> exc, trace |-> trace]

\* the loop of set_sim_state over zip(obs_spec, sample), from position i
RECURSIVE SetSimLoop(_, _, _, _)
SetSimLoop(spec, sample, i, d) ==
    IF i > Len(spec) THEN Result(d, NoExc, <<>>)
    ELSE LET e == spec[i]
             value == sample[i]
         IN  IF e.ot = JOINT_POS
             THEN LET rest == SetSimLoop(spec, sample, i + 1,
                                         [d EXCEPT ![e.name, "qpos"] = value])
                  IN  Result(rest.data, rest.exc, <<"write">> \o rest.trace)
             ELSE IF e.ot = JOINT_VEL
             THEN LET rest == SetSimLoop(spec, sample, i + 1,
                                         [d EXCEPT ![e.name, "qvel"] = value])
                  IN  Result(rest.data, rest.exc, <<"write">> \o rest.trace)
             ELSE IF e.ot = SITE_ROT
             THEN IF value.ndim # 2
                  THEN Result(d, AssertionError, <<>>)
                  ELSE LET rest == SetSimLoop(spec, sample, i + 1,
                                              [d EXCEPT ![e.name, "xmat"] = value])
                       IN  Result(rest.data, rest.exc, <<"write">> \o rest.trace)
             ELSE SetSimLoop(spec, sample, i + 1, d)

set_sim_state(spec, d, sample) ==
    IF Len(sample) # Len(spec)
    THEN Result(d, AssertionError, <<>>)
    ELSE SetSimLoop(spec, sample, 1, d)

\* _init_sim_from_obs with a single placeholder in front of the observation
_init_sim_from_obs_one_placeholder(spec, d, obs) ==
    LET padded == <<0>> \o obs
    IN  IF Len(padded) < Len(spec)
        THEN Result(d, AssertionError, <<>>)
        ELSE LET cut == SliceTo(padded, Len(spec))
             IN  set_sim_state(spec, d, [i \in 1..Len(cut) |-> Scalar(cut[i])])

\* _init_sim_from_obs handing on everything it was given
_init_sim_from_obs_no_truncate(spec, d, obs) ==
    LET padded == <<0, 0>> \o obs
    IN  IF Len(padded) < Len(spec)
        THEN Result(d, AssertionError, <<>>)
        ELSE set_sim_state(spec, d, [i \in 1..Len(padded) |-> Scalar(padded[i])])

\* obs is a 1-D array, so every element handed on is a scalar
_init_sim_from_obs(spec, d, obs) ==
    LET padded == <<0, 0>> \o obs
    IN  IF Len(padded) < Len(spec)
        THEN Result(d, AssertionError, <<>>)
        ELSE LET cut == SliceTo(padded, Len(spec))
             IN  set_sim_state(spec, d, [i \in 1..Len(cut) |-> Scalar(cut[i])])

(***************************************************************************)
(* The observation pipeline.                                               *)
(***************************************************************************)
\* _get_grf_size
GrfSize == 12
\* the divisor of the mean ground forces in _create_observation
GrfScale == 1000

\* the observation space the base class builds: one unbounded slot per flat
\* observation entry
BaseObservationSpace(spec) ==
    [low |-> Repeat("-inf", FlatLen(spec)), high |-> Repeat("inf", FlatLen(spec))]

_get_observation_space(space, use_foot_forces) ==
    LET sim_low == SliceFrom(space.low, 2)
        sim_high == SliceFrom(space.high, 2)
    IN  IF use_foot_forces
        THEN [low |-> sim_low \o Repeat("-inf", GrfSize),
              high |-> sim_high \o Repeat("inf", GrfSize)]
        ELSE [low |-> sim_low, high |-> sim_high]

\* RunningAveragedWindow: the buffer of the last window_size readings
RECURSIVE SumAt(_, _)
SumAt(buffer, c) == IF buffer = <<>> THEN 0 ELSE Head(buffer)[c] + SumAt(Tail(buffer), c)

WindowNew == << Repeat(0, GrfSize) >>
WindowMean(buffer) == [c \in 1..GrfSize |-> SumAt(buffer, c) \div Len(buffer)]
WindowUpdate(buffer, window_size, value) ==
    LET appended == Append(buffer, value)
    IN  IF Len(appended) > window_size
        THEN SubSeq(appended, Len(appended) - window_size + 1, Len(appended))
        ELSE appended

\* _create_observation dropping only the first entry
_create_observation_drop_one(obs, use_foot_forces, buffer) ==
    IF use_foot_forces
    THEN SliceFrom(obs, 1) \o [c \in 1..GrfSize |-> WindowMean(buffer)[c] \div GrfScale]
    ELSE SliceFrom(obs, 1)

_create_observation(obs, use_foot_forces, buffer) ==
    IF use_foot_forces
    THEN SliceFrom(obs, 2) \o [c \in 1..GrfSize |-> WindowMean(buffer)[c] \div GrfScale]
    ELSE SliceFrom(obs, 2)

\* the last n rows of a sequence of readings
LastRows(rows, n) ==
    IF Len(rows) > n THEN SubSeq(rows, Len(rows) - n + 1, Len(rows)) ELSE rows

\* _simulation_post_step feeding its reading into the averager twice
_simulation_post_step_feeds_twice(use_foot_forces, buffer, window_size, grf) ==
    IF use_foot_forces
    THEN [mean_grf |-> WindowUpdate(WindowUpdate(buffer, window_size, grf),
                                    window_size, grf),
          trace |-> <<"update_stats", "update_stats">>]
    ELSE [mean_grf |-> buffer, trace |-> <<>>]

\* grf is the reading _get_ground_forces returns, taken only with foot
\* forces enabled
_simulation_post_step(use_foot_forces, buffer, window_size, grf) ==
    IF use_foot_forces
    THEN [mean_grf |-> WindowUpdate(buffer, window_size, grf),
          trace |-> <<"update_stats">>]
    ELSE [mean_grf |-> buffer, trace |-> <<>>]

(***************************************************************************)
(* The trajectory store (loco_mujoco.utils.Trajectory).                    *)
(***************************************************************************)
Trajectory(traj_params) ==
    [trajectory_length |-> traj_params.trajectory_length,
     number_of_trajectories |-> traj_params.number_of_trajectories,
     traj_no |-> 0, substep_no |-> 0]

\* the stored sample at a position: one cell per entry of the observation
\* specification, a matrix for a site rotation
TrajectorySample(spec, store, substep_no, traj_no) ==
    [i \in 1..Len(spec) |->
        LET v == 10 * (traj_no * store.trajectory_length + substep_no + 1) + i
        IN  IF spec[i].ot = SITE_ROT THEN Matrix(v) ELSE Scalar(v)]

\* reset_trajectory(substep_no, traj_no): moves the store to the position
\* and returns its sample
reset_trajectory(spec, store, substep_no, traj_no) ==
    [store |-> [store EXCEPT !.traj_no = traj_no, !.substep_no = substep_no],
     sample |-> TrajectorySample(spec, store, substep_no, traj_no)]

\* reading attribute name of a Python object
HasAttr(obj, name) == name \in DOMAIN obj

\* load_trajectory appending the new trajectories to a loaded store
load_trajectory_merge(cur, traj_params) ==
    [trajectories |->
        IF IsNone(cur) THEN Some(Trajectory(traj_params))
        ELSE Some([Val(cur) EXCEPT !.number_of_trajectories =
                                       @ + traj_params.number_of_trajectories]),
     trace |-> IF ~IsNone(cur) THEN <<"warn", "Trajectory">> ELSE <<"Trajectory">>]

load_trajectory(cur, traj_params) ==
    [trajectories |-> Some(Trajectory(traj_params)),
     trace |-> IF ~IsNone(cur) THEN <<"warn", "Trajectory">> ELSE <<"Trajectory">>]

(***************************************************************************)
(* Reward dispatch.                                                        *)
(***************************************************************************)
RewardTypes == {None, Some("custom"), Some("target_velocity"), Some("x_pos"), Some("sparse")}
\* reward_params: None (the constructor's default) or a mapping the
\* strategy's constructor accepts
RewardParams == {None, Some("mapping")}

Strategy(kind, idx) == [kind |-> kind, idx |-> idx]
Raised(exc) == [exc |-> exc, ret |-> None]
Returned(x) == [exc |-> NoExc, ret |-> Some(x)]

\* get_obs_idx: the indices of a key, shifted by 2 for the deleted x and y
get_obs_idx(spec, key) ==
    IF ~HasKey(spec, key)
    THEN Raised(KeyError)
    ELSE LET idx == ObsIdxOf(spec, key, 0)
         IN  Returned([i \in 1..Len(idx) |-> idx[i] - 2])

\* _get_reward_function falling back to the no-op reward for an unknown name
_get_reward_function_fallback(spec, reward_type, reward_params) ==
    IF reward_type = Some("custom")
    THEN IF IsNone(reward_params)
         THEN Raised(TypeError)
         ELSE Returned(Strategy("CustomReward", None))
    ELSE IF reward_type = Some("target_velocity")
    THEN LET x_vel_idx == get_obs_idx(spec, "dq_pelvis_tx")
         IN  IF x_vel_idx.exc # NoExc THEN Raised(x_vel_idx.exc)
             ELSE IF Len(Val(x_vel_idx.ret)) # 1 THEN Raised(AssertionError)
             ELSE IF IsNone(reward_params) THEN Raised(TypeError)
             ELSE Returned(Strategy("TargetVelocityReward", Some(Val(x_vel_idx.ret)[1])))
    ELSE IF reward_type = Some("x_pos")
    THEN LET x_idx == get_obs_idx(spec, "q_pelvis_tx")
         IN  IF x_idx.exc # NoExc THEN Raised(x_idx.exc)
             ELSE IF Len(Val(x_idx.ret)) # 1 THEN Raised(AssertionError)
             ELSE Returned(Strategy("PosReward", Some(Val(x_idx.ret)[1])))
    ELSE Returned(Strategy("NoReward", None))

_get_reward_function(spec, reward_type, reward_params) ==
    IF reward_type = Some("custom")
    THEN IF IsNone(reward_params)
         THEN Raised(TypeError)
         ELSE Returned(Strategy("CustomReward", None))
    ELSE IF reward_type = Some("target_velocity")
    THEN LET x_vel_idx == get_obs_idx(spec, "dq_pelvis_tx")
         IN  IF x_vel_idx.exc # NoExc THEN Raised(x_vel_idx.exc)
             ELSE IF Len(Val(x_vel_idx.ret)) # 1 THEN Raised(AssertionError)
             ELSE IF IsNone(reward_params) THEN Raised(TypeError)
             ELSE Returned(Strategy("TargetVelocityReward", Some(Val(x_vel_idx.ret)[1])))
    ELSE IF reward_type = Some("x_pos")
    THEN LET x_idx == get_obs_idx(spec, "q_pelvis_tx")
         IN  IF x_idx.exc # NoExc THEN Raised(x_idx.exc)
             ELSE IF Len(Val(x_idx.ret)) # 1 THEN Raised(AssertionError)
             ELSE Returned(Strategy("PosReward", Some(Val(x_idx.ret)[1])))
    ELSE IF IsNone(reward_type)
    THEN Returned(Strategy("NoReward", None))
    ELSE Raised(NotImplementedError)

(***************************************************************************)
(* Action normalisation.  Numbers count halves (2 stands for 1.0), and     *)
(* every operation rounds its exact result to Precision significant bits,  *)
(* ties to even, as IEEE arithmetic does.                                  *)
(***************************************************************************)
RECURSIVE Pow2(_)
Pow2(n) == IF n = 0 THEN 1 ELSE 2 * Pow2(n - 1)

\* the spacing of the floats around x >= 0
RECURSIVE Ulp(_, _)
Ulp(x, q) == IF x < q * Pow2(Precision) THEN q ELSE Ulp(x, 2 * q)

RoundPos(x) ==
    LET q == Ulp(x, 1)
        m == x \div q
        r == x % q
    IN  IF 2 * r < q THEN m * q
        ELSE IF 2 * r > q THEN (m + 1) * q
        ELSE IF m % 2 = 0 THEN m * q
        ELSE (m + 1) * q

\* round to nearest, ties to even
Fl(x) == IF x < 0 THEN 0 - RoundPos(0 - x) ELSE RoundPos(x)

FAdd(x, y) == Fl(x + y)
FSub(x, y) == Fl(x - y)
\* x / 2.0: exact in binary floating point
FHalf(x) == x \div 2
\* x * y, both counting halves
FMul(x, y) == Fl((x * y) \div 2)

\* the native bounds of an actuator: floats that are multiples of 4, so
\* that the halves taken below are whole numbers of the model
ActBounds == {b \in {4 * k : k \in (0 - MaxActBound)..MaxActBound} : Fl(b) = b}
\* normalised actions -1, -0.5, 0, 0.5, 1
NormActions == {0 - 2, 0 - 1, 0, 1, 2}

NormActMean(low, high) == [i \in 1..Len(low) |-> FHalf(FAdd(high[i], low[i]))]
NormActDelta(low, high) == [i \in 1..Len(low) |-> FHalf(FSub(high[i], low[i]))]

\* the unnormalised action, and the caller's array after the call
_preprocess_action(action, delta, mean) ==
    [ret |-> [i \in 1..Len(action) |-> FAdd(FMul(action[i], delta[i]), mean[i])],
     action |-> action]

(***************************************************************************)
(* setup: the decision table of episode initialisation.  rnd is the        *)
(* position reset_trajectory() draws when it is called without arguments.  *)
(***************************************************************************)
SetupResult(r, store, branch, trace) ==
    [data |-> r.data, trajectories |-> store, exc |-> r.exc,
     trace |-> trace \o r.trace, branch |-> branch]

\* Python's truth value of an optional int: None and 0 are false
Truthy(o) == ~IsNone(o) /\ Val(o) # 0

\* the reset-mode checks without the third one (random start and init step)
reset_mode_error_two_checks(store, random_start, init_step_no) ==
    IF IsNone(store) /\ random_start THEN TRUE
    ELSE IF IsNone(store) /\ ~IsNone(init_step_no) THEN TRUE
    ELSE FALSE

\* the three checks of the reset mode, made when no observation is given
reset_mode_error(store, random_start, init_step_no) ==
    IF IsNone(store) /\ random_start THEN TRUE
    ELSE IF IsNone(store) /\ ~IsNone(init_step_no) THEN TRUE
    ELSE IF ~IsNone(init_step_no) /\ random_start THEN TRUE
    ELSE FALSE

\* the initialisation from the trajectory store, or the default state
setup_from_store(spec, d, store, random_start, init_step_no, rnd) ==
    LET stay == Result(d, NoExc, <<>>)
    IN  IF ~IsNone(store)
        THEN IF random_start
             THEN LET rt == reset_trajectory(spec, Val(store), rnd.substep_no, rnd.traj_no)
                  IN  SetupResult(set_sim_state(spec, d, rt.sample), Some(rt.store),
                                  "random", <<"reset_trajectory">>)
             ELSE IF Truthy(init_step_no)
             THEN IF ~HasAttr(Val(store), "trajectory_length")
                     \/ ~HasAttr(Val(store), "nnumber_of_trajectories")
                  THEN SetupResult(Result(d, AttributeError, <<>>), store, "fixed", <<>>)
                  ELSE LET traj_len == Val(store)["trajectory_length"]
                           n_traj == Val(store)["nnumber_of_trajectories"]
                           k == Val(init_step_no)
                       IN  IF ~(k <= traj_len * n_traj)
                           THEN SetupResult(Result(d, AssertionError, <<>>), store,
                                            "fixed", <<>>)
                           ELSE LET rt == reset_trajectory(spec, Val(store),
                                                           k % traj_len, k \div traj_len)
                                IN  SetupResult(set_sim_state(spec, d, rt.sample),
                                                Some(rt.store), "fixed",
                                                <<"reset_trajectory">>)
             ELSE SetupResult(stay, store, "default", <<>>)
        ELSE SetupResult(stay, store, "default", <<>>)

\* setup making the reset-mode checks before it looks at the observation
setup_branches_checks_first(spec, d, store, random_start, init_step_no, obs, rnd) ==
    IF reset_mode_error(store, random_start, init_step_no)
    THEN SetupResult(Result(d, ValueError, <<>>), store, "error", <<>>)
    ELSE IF ~IsNone(obs)
    THEN SetupResult(_init_sim_from_obs(spec, d, Val(obs)), store, "obs", <<>>)
    ELSE setup_from_store(spec, d, store, random_start, init_step_no, rnd)

\* setup after the reward strategy's reset
setup_branches(spec, d, store, random_start, init_step_no, obs, rnd) ==
    IF ~IsNone(obs)
    THEN SetupResult(_init_sim_from_obs(spec, d, Val(obs)), store, "obs", <<>>)
    ELSE IF reset_mode_error(store, random_start, init_step_no)
    THEN SetupResult(Result(d, ValueError, <<>>), store, "error", <<>>)
    ELSE setup_from_store(spec, d, store, random_start, init_step_no, rnd)

\* setup resetting the reward strategy after the state is initialised, so
\* that a call that raises never reaches the reset
setup_reset_last(spec, d, store, random_start, init_step_no, obs, rnd) ==
    LET r == setup_branches(spec, d, store, random_start, init_step_no, obs, rnd)
    IN  IF r.exc # NoExc THEN r
        ELSE [r EXCEPT !.trace = r.trace \o <<"reset_state">>]

setup(spec, d, store, random_start, init_step_no, obs, rnd) ==
    LET r == setup_branches(spec, d, store, random_start, init_step_no, obs, rnd)
    IN  [r EXCEPT !.trace = <<"reset_state">> \o r.trace]

(***************************************************************************)
(* The environment: the constructor's arguments, the object's fields, the  *)
(* simulator's data and the record of the last call.                       *)
(***************************************************************************)
VARIABLES args, phase, _reward_function, _use_foot_forces, observation_space,
          action_space, norm_act_mean, norm_act_delta, _kinematic_obs_mask,
          mean_grf, trajectories, _random_start, _init_step_no, _data,
          grf_readings, last

fields == <<_reward_function, _use_foot_forces, observation_space, action_space,
            norm_act_mean, norm_act_delta, _kinematic_obs_mask, mean_grf,
            trajectories, _random_start, _init_step_no>>
\* grf_readings is the history of the readings _get_ground_forces has
\* returned since construction, the most recent n_substeps of them
vars == <<args, phase, fields, _data, grf_readings, last>>

Call(op, arg, exc, trace, branch, ret, arg_after) ==
    [op |-> op, arg |-> arg, exc |-> exc, trace |-> trace, branch |-> branch,
     ret |-> ret, arg_after |-> arg_after]

TrajParams(len, n) == [trajectory_length |-> len, number_of_trajectories |-> n]
\* the trajectory files the model loads: two trajectories of two samples
\* and one trajectory of three
TrajParamsSet == {TrajParams(2, 2), TrajParams(3, 1)}

\* the substep count, the size of the ground-force window
NSubsteps == 2
\* the ground-force readings of a simulation step: no contact, or a load on
\* every component (multiples of 6000, so that the window's means are whole)
GrfReadings == {Repeat(0, GrfSize), [c \in 1..GrfSize |-> 6000 * c]}

ArgsOf(spec, rtype, rparams, tparams, rstart, istep, foot, low, high) ==
    [observation_spec |-> spec, reward_type |-> rtype, reward_params |-> rparams,
     traj_params |-> tparams, random_start |-> rstart, init_step_no |-> istep,
     use_foot_forces |-> foot, n_substeps |-> NSubsteps,
     act_low |-> low, act_high |-> high]

\* the state before the constructor runs, for arguments drawn from A
InitFrom(A) ==
    /\ args \in A
    /\ phase = "new"
    /\ _reward_function = None
    /\ _use_foot_forces = FALSE
    /\ observation_space = [low |-> <<>>, high |-> <<>>]
    /\ action_space = [low |-> <<>>, high |-> <<>>]
    /\ norm_act_mean = <<>>
    /\ norm_act_delta = <<>>
    /\ _kinematic_obs_mask = <<>>
    /\ mean_grf = <<>>
    /\ trajectories = None
    /\ _random_start = FALSE
    /\ _init_step_no = None
    /\ _data = DefaultData
    /\ grf_readings = <<>>
    /\ last = Call("new", None, NoExc, <<>>, "", None, None)

InitSteps == {None} \cup {Some(k) : k \in 0..MaxInitStep}

\* BaseEnv.__init__
init ==
    /\ phase = "new"
    /\ LET rf == _get_reward_function(args.observation_spec, args.reward_type,
                                      args.reward_params)
           loaded == IF ~IsNone(args.traj_params)
                     THEN load_trajectory(None, Val(args.traj_params))
                     ELSE [trajectories |-> None, trace |-> <<>>]
       IN  IF rf.exc # NoExc
           THEN /\ phase' = "failed"
                /\ last' = Call("__init__", None, rf.exc, <<>>, "", None, None)
                /\ UNCHANGED <<fields, _data>>
           ELSE /\ phase' = "ready"
                /\ _reward_function' = rf.ret
                /\ _use_foot_forces' = args.use_foot_forces
                /\ observation_space' =
                       _get_observation_space(BaseObservationSpace(args.observation_spec),
                                              args.use_foot_forces)
                /\ norm_act_mean' = NormActMean(args.act_low, args.act_high)
                /\ norm_act_delta' = NormActDelta(args.act_low, args.act_high)
                /\ action_space' = [low |-> Repeat(0 - 2, Len(args.act_low)),
                                    high |-> Repeat(2, Len(args.act_high))]
                /\ _kinematic_obs_mask' =
                       [i \in 1..(Len(args.observation_spec) - 2) |-> i - 1]
                /\ mean_grf' = WindowNew
                /\ trajectories' = loaded.trajectories
                /\ _random_start' = args.random_start
                /\ _init_step_no' = args.init_step_no
                /\ last' = Call("__init__", None, NoExc, loaded.trace, "", rf.ret, None)
                /\ UNCHANGED _data
    /\ UNCHANGED <<args, grf_readings>>

\* BaseEnv.load_trajectory
LoadTrajectory ==
    /\ phase = "ready"
    /\ \E p \in TrajParamsSet :
          LET r == load_trajectory(trajectories, p)
          IN  /\ trajectories' = r.trajectories
              /\ last' = Call("load_trajectory", p, NoExc, r.trace, "", None, None)
    /\ UNCHANGED <<args, phase, _reward_function, _use_foot_forces, observation_space,
                   action_space, norm_act_mean, norm_act_delta, _kinematic_obs_mask,
                   mean_grf, _random_start, _init_step_no, _data, grf_readings>>

\* the observations a caller hands to setup: 1-D arrays of the agent-facing
\* length, one entry shorter and one entry longer
RECURSIVE SeqsOf(_, _)
SeqsOf(S, n) ==
    IF n <= 0 THEN {<<>>}
    ELSE {Append(q, x) : q \in SeqsOf(S, n - 1), x \in S}

ObsInputs(spec) ==
    LET n == FlatLen(spec) - 2
    IN  SeqsOf(1..MaxObsValue, n)
        \cup {Repeat(v, n - 1) : v \in 1..MaxObsValue}
        \cup {Repeat(v, n + 1) : v \in 1..MaxObsValue}

Positions(store) ==
    IF IsNone(store) THEN {[traj_no |-> 0, substep_no |-> 0]}
    ELSE [traj_no : 0..(Val(store).number_of_trajectories - 1),
          substep_no : 0..(Val(store).trajectory_length - 1)]

\* a setup that also rebuilds the ground-force averager
Setup_rebuilds_averager ==
    /\ phase = "ready"
    /\ \E obs \in {None} \cup {Some(o) : o \in ObsInputs(args.observation_spec)} :
       \E rnd \in Positions(IF IsNone(obs) /\ _random_start THEN trajectories ELSE None) :
          LET r == setup(args.observation_spec, _data, trajectories, _random_start,
                         _init_step_no, obs, rnd)
          IN  /\ _data' = r.data
              /\ trajectories' = r.trajectories
              /\ last' = Call("setup", obs, r.exc, r.trace, r.branch, None, None)
    /\ mean_grf' = WindowNew
    /\ UNCHANGED <<args, phase, _reward_function, _use_foot_forces, observation_space,
                   action_space, norm_act_mean, norm_act_delta, _kinematic_obs_mask,
                   _random_start, _init_step_no, grf_readings>>

\* BaseEnv.setup
Setup ==
    /\ phase = "ready"
    /\ \E obs \in {None} \cup {Some(o) : o \in ObsInputs(args.observation_spec)} :
       \E rnd \in Positions(IF IsNone(obs) /\ _random_start THEN trajectories ELSE None) :
          LET r == setup(args.observation_spec, _data, trajectories, _random_start,
                         _init_step_no, obs, rnd)
          IN  /\ _data' = r.data
              /\ trajectories' = r.trajectories
              /\ last' = Call("setup", obs, r.exc, r.trace, r.branch, None, None)
    /\ UNCHANGED <<args, phase, _reward_function, _use_foot_forces, observation_space,
                   action_space, norm_act_mean, norm_act_delta, _kinematic_obs_mask,
                   mean_grf, _random_start, _init_step_no, grf_readings>>

\* the raw samples _create_observation is called with: the simulator state
\* in the layout of the observation specification, and a sample with one
\* value per entry of the specification
RawInputs(spec, d) == {BuildObs(spec, d), [i \in 1..Len(spec) |-> i]}

\* BaseEnv._create_observation
CreateObservation ==
    /\ phase = "ready"
    /\ \E raw \in RawInputs(args.observation_spec, _data) :
          last' = Call("_create_observation", raw, NoExc, <<>>, "",
                       _create_observation(raw, _use_foot_forces, mean_grf), raw)
    /\ UNCHANGED <<args, phase, fields, _data, grf_readings>>

\* BaseEnv._preprocess_action
PreprocessAction ==
    /\ phase = "ready"
    /\ \E action \in SeqsOf(NormActions, Len(norm_act_mean)) :
          LET r == _preprocess_action(action, norm_act_delta, norm_act_mean)
          IN  last' = Call("_preprocess_action", action, NoExc, <<>>, "", r.ret, r.action)
    /\ UNCHANGED <<args, phase, fields, _data, grf_readings>>

\* BaseEnv._simulation_post_step
SimulationPostStep ==
    /\ phase = "ready"
    /\ \E grf \in GrfReadings :
          LET r == _simulation_post_step(_use_foot_forces, mean_grf, args.n_substeps, grf)
          IN  /\ mean_grf' = r.mean_grf
              /\ grf_readings' = IF _use_foot_forces
                                 THEN LastRows(Append(grf_readings, grf), args.n_substeps)
                                 ELSE grf_readings
              /\ last' = Call("_simulation_post_step", grf, NoExc, r.trace, "", None, None)
    /\ UNCHANGED <<args, phase, _reward_function, _use_foot_forces, observation_space,
                   action_space, norm_act_mean, norm_act_delta, _kinematic_obs_mask,
                   trajectories, _random_start, _init_step_no, _data>>

Next ==
    \/ init
    \/ LoadTrajectory
    \/ Setup
    \/ CreateObservation
    \/ PreprocessAction
    \/ SimulationPostStep

(***************************************************************************)
(* The specifications: the same environment, with the constructor's        *)
(* arguments drawn from the set each group of properties is about.         *)
(***************************************************************************)
\* reset modes and trajectory loading
LifecycleArgs ==
    {ArgsOf(spec, None, None, tp, rs, is, FALSE, <<0 - 4>>, <<4>>) :
        spec \in {SpecPlanar, SpecWithSite},
        tp \in {None, Some(TrajParams(2, 2))},
        rs \in BOOLEAN, is \in InitSteps}
Init == InitFrom(LifecycleArgs)
Spec == Init /\ [][Next]_vars

\* the observation pipeline
ObsArgs ==
    {ArgsOf(spec, None, None, None, FALSE, None, foot, <<0 - 4>>, <<4>>) :
        spec \in {SpecPlanar, SpecWithSite, SpecOtherKeys, SpecWideJoint},
        foot \in BOOLEAN}
InitObs == InitFrom(ObsArgs)
SpecObs == InitObs /\ [][Next]_vars

\* action normalisation
ActArgs ==
    {ArgsOf(SpecPlanar, None, None, None, FALSE, None, FALSE, <<low>>, <<high>>) :
        low \in ActBounds, high \in ActBounds}
\* an actuator's range is not empty
InitAct == InitFrom({a \in ActArgs : a.act_low[1] <= a.act_high[1]})
SpecAct == InitAct /\ [][Next]_vars

\* reward dispatch
RewArgs ==
    {ArgsOf(spec, rt, rp, None, FALSE, None, FALSE, <<0 - 4>>, <<4>>) :
        spec \in {SpecPlanar, SpecWithSite, SpecOtherKeys, SpecWideJoint},
        rt \in RewardTypes, rp \in RewardParams}
InitRew == InitFrom(RewArgs)
SpecRew == InitRew /\ [][Next]_vars

\* resets of an environment with foot forces, in every reset mode
ResetArgs ==
    {ArgsOf(SpecPlanar, None, None, tp, rs, is, TRUE, <<0 - 4>>, <<4>>) :
        tp \in {None, Some(TrajParams(2, 2))},
        rs \in BOOLEAN, is \in {None, Some(1)}}
\* without trajectories only the default reset mode is drawn
InitReset ==
    InitFrom({a \in ResetArgs :
                 IsNone(a.traj_params) => (~a.random_start /\ IsNone(a.init_step_no))})
SpecReset == InitReset /\ [][Next]_vars

(***************************************************************************)
(* Properties of setup and load_trajectory.                                *)
(***************************************************************************)
AfterSetupNoObs == last.op = "setup" /\ IsNone(last.arg)
AfterSetupObs == last.op = "setup" /\ ~IsNone(last.arg)

\* the entries set_sim_state writes
Handled(e) == e.ot \in {JOINT_POS, JOINT_VEL, SITE_ROT}
IsJoint(e) == e.ot \in {JOINT_POS, JOINT_VEL}

\* the simulator holds the sample in every entry set_sim_state writes
HoldsSample(spec, d, sample) ==
    \A i \in 1..Len(spec) :
        Handled(spec[i]) => d[spec[i].name, FieldOf(spec[i].ot)] = sample[i]

FixedMode == ~_random_start /\ ~IsNone(_init_step_no) /\ ~IsNone(trajectories)

\* C1: after setup without an observation in fixed-init-step mode (store
\* loaded, random_start false, init_step_no = k for any k inside the store,
\* k = 0 included), the simulator holds the store's sample at trajectory
\* k div trajectory_length, offset k mod trajectory_length.
C1_FixedStepSetsSample ==
    (AfterSetupNoObs /\ FixedMode) =>
        LET st == Val(trajectories)
            k == Val(_init_step_no)
        IN  k < st.trajectory_length * st.number_of_trajectories =>
                /\ last.exc = NoExc
                /\ HoldsSample(args.observation_spec, _data,
                               TrajectorySample(args.observation_spec, st,
                                                k % st.trajectory_length,
                                                k \div st.trajectory_length))

\* the combinations of flags and store the reset-mode checks reject
BadResetMode ==
    \/ IsNone(trajectories) /\ _random_start
    \/ IsNone(trajectories) /\ ~IsNone(_init_step_no)
    \/ _random_start /\ ~IsNone(_init_step_no)

\* C2: setup without an observation raises the reset-mode error exactly for
\* the three rejected combinations; otherwise it takes exactly one of the
\* random start (iff random_start), the fixed init step (only with an init
\* step set) and the default state, and reads the store at most once.
C2_ResetModeError ==
    AfterSetupNoObs =>
        /\ (last.exc = ValueError) <=> BadResetMode
        /\ ~BadResetMode =>
              /\ last.branch \in {"random", "fixed", "default"}
              /\ (last.branch = "random") <=> _random_start
              /\ (last.branch = "fixed") => (~IsNone(_init_step_no) /\ ~_random_start)
              /\ (last.branch = "default") => last.trace = <<"reset_state">>
              /\ Count(last.trace, "reset_trajectory") <= 1
              /\ (last.branch = "random") => Count(last.trace, "reset_trajectory") = 1

\* a setup that raised the reset-mode error although a store is loaded and
\* one that took the random start without error
C2_Witness ==
    /\ AfterSetupNoObs
    /\ last.exc = ValueError
    /\ ~IsNone(trajectories)
    /\ _random_start
    /\ ~IsNone(_init_step_no)

\* C3: in fixed-init-step mode setup does not raise for init_step_no equal
\* to trajectory_length * n_traj and raises for every larger init_step_no.
C3_BoundaryInclusive ==
    (AfterSetupNoObs /\ FixedMode) =>
        LET st == Val(trajectories)
            k == Val(_init_step_no)
            max == st.trajectory_length * st.number_of_trajectories
        IN  /\ k = max => last.exc = NoExc
            /\ k > max => last.exc # NoExc

\* C4: a setup with an explicit observation raises no reset-mode error
\* whatever the flags and the store, leaves the store as it was without
\* reading it, and when it returns the simulator holds the observation
\* (after the two zero placeholders) in every joint entry.
C4_ObsIgnoresStore ==
    [][(last'.op = "setup" /\ ~IsNone(last'.arg)) =>
          /\ last'.exc # ValueError
          /\ last'.branch = "obs"
          /\ trajectories' = trajectories
          /\ Count(last'.trace, "reset_trajectory") = 0
          /\ last'.exc = NoExc =>
                \A i \in 1..Len(args.observation_spec) :
                    IsJoint(args.observation_spec[i]) =>
                        _data'[args.observation_spec[i].name,
                               FieldOf(args.observation_spec[i].ot)]
                            = Scalar((<<0, 0>> \o Val(last'.arg))[i])]_vars

\* a setup from an observation that returned although the flags and the
\* missing store would raise without the observation
C4_Witness ==
    /\ AfterSetupObs
    /\ last.exc = NoExc
    /\ IsNone(trajectories)
    /\ _random_start
    /\ ~IsNone(_init_step_no)

\* C5: every setup call resets the reward strategy exactly once, as its
\* first effect (before any write to the simulator), also when the call
\* ends in an error.
C5_RewardResetOnce ==
    last.op = "setup" =>
        /\ Count(last.trace, "reset_state") = 1
        /\ last.trace[1] = "reset_state"

\* a setup that ended in the reset-mode error, and had reset the strategy
C5_Witness ==
    /\ last.op = "setup"
    /\ last.exc = ValueError
    /\ Count(last.trace, "reset_state") = 1

\* C6: a load_trajectory call leaves the store built from its own
\* parameters, positioned at its start, and warns exactly when a store was
\* loaded before it; the constructor's load never warns.
C6_LastLoadWins ==
    [][/\ last'.op = "load_trajectory" =>
              /\ trajectories' = Some(Trajectory(last'.arg))
              /\ (Count(last'.trace, "warn") = 1) <=> ~IsNone(trajectories)
              /\ Count(last'.trace, "warn") <= 1
              /\ Count(last'.trace, "Trajectory") = 1
       /\ (last'.op = "__init__" /\ last'.exc = NoExc) =>
              /\ Count(last'.trace, "warn") = 0
              /\ trajectories' = IF IsNone(args.traj_params) THEN None
                                 ELSE Some(Trajectory(Val(args.traj_params)))]_vars

\* a reload: the store of the constructor replaced by one of other
\* parameters, with the warning
C6_Witness ==
    /\ last.op = "load_trajectory"
    /\ Count(last.trace, "warn") = 1
    /\ ~IsNone(args.traj_params)
    /\ last.arg # Val(args.traj_params)
    /\ trajectories = Some(Trajectory(last.arg))

(***************************************************************************)
(* Properties of the observation pipeline, the action normalisation and    *)
(* the reward dispatch.                                                    *)
(***************************************************************************)
\* the type of every slot of the flat simulator layout
RECURSIVE FlatKinds(_)
FlatKinds(spec) ==
    IF spec = <<>> THEN <<>>
    ELSE Repeat(Head(spec).ot, ObsWidth(Head(spec))) \o FlatKinds(Tail(spec))

\* every entry is one scalar slot of the flat layout
OneSlotEach(spec) == \A i \in 1..Len(spec) : ObsWidth(spec[i]) = 1

\* C7: for a raw sample in the simulator's layout, of length
\* len(observation_spec), _create_observation returns len(observation_spec)
\* - 2 entries, 12 more with foot forces, which is the length of the
\* observation-space bounds built at construction.
C7_ObservationLength ==
    LET spec == args.observation_spec
    IN  (/\ last.op = "_create_observation"
         /\ Len(last.arg) = Len(spec)
         /\ Len(last.arg) = FlatLen(spec)) =>
            /\ Len(last.ret) = Len(spec) - 2 + (IF _use_foot_forces THEN 12 ELSE 0)
            /\ Len(last.ret) = Len(observation_space.low)
            /\ Len(last.ret) = Len(observation_space.high)

\* an observation assembled with foot forces from the simulator's state
C7_Witness ==
    /\ last.op = "_create_observation"
    /\ _use_foot_forces
    /\ last.arg = BuildObs(args.observation_spec, _data)
    /\ Len(last.arg) = Len(args.observation_spec)
    /\ Len(last.ret) = Len(args.observation_spec) + 10

\* C8: for an action with every component in [-1, 1] every component of
\* _preprocess_action lies within the actuator's native bounds, is exactly
\* low at -1 and exactly high at +1, and the caller's array is unchanged.
C8_WithinNativeBounds ==
    last.op = "_preprocess_action" =>
        /\ last.arg_after = last.arg
        /\ \A i \in 1..Len(last.arg) :
              /\ args.act_low[i] <= last.ret[i]
              /\ last.ret[i] <= args.act_high[i]
              /\ last.arg[i] = 0 - 2 => last.ret[i] = args.act_low[i]
              /\ last.arg[i] = 2 => last.ret[i] = args.act_high[i]

KnownRewardTypes == {None, Some("custom"), Some("target_velocity"), Some("x_pos")}
\* the key is absent from the specification or maps to several indices
KeyUnusable(spec, key) == ~HasKey(spec, key) \/ Len(ObsIdxOf(spec, key, 0)) > 1
KindOf(reward_type) ==
    IF reward_type = Some("custom") THEN "CustomReward"
    ELSE IF reward_type = Some("target_velocity") THEN "TargetVelocityReward"
    ELSE IF reward_type = Some("x_pos") THEN "PosReward"
    ELSE "NoReward"
\* the dispatch must fail: an unknown name, or an unusable pelvis key
DispatchFails ==
    \/ args.reward_type \notin KnownRewardTypes
    \/ args.reward_type = Some("target_velocity")
          /\ KeyUnusable(args.observation_spec, "dq_pelvis_tx")
    \/ args.reward_type = Some("x_pos")
          /\ KeyUnusable(args.observation_spec, "q_pelvis_tx")
DispatchErrors ==
    /\ args.reward_type \notin KnownRewardTypes => last.exc = NotImplementedError
    /\ (args.reward_type \in KnownRewardTypes /\ DispatchFails) =>
           last.exc \in {KeyError, AssertionError}
StrategyReturned ==
    /\ last.exc = NoExc
    /\ phase = "ready"
    /\ ~IsNone(_reward_function)
    /\ Val(_reward_function).kind = KindOf(args.reward_type)

\* C9 as claimed: the constructor's reward dispatch raises
\* NotImplementedError for an unknown name, a lookup or assertion error for
\* an unusable pelvis key, and in all other cases returns a strategy of the
\* requested kind.
C9_RewardDispatch ==
    last.op = "__init__" =>
        /\ DispatchErrors
        /\ ~DispatchFails => StrategyReturned

\* "custom" and "target_velocity" unpack reward_params, which is None by
\* default
NeedsParams == args.reward_type \in {Some("custom"), Some("target_velocity")}

\* C9 amended: as claimed, except that in the other cases "custom" and
\* "target_velocity" with reward_params None raise TypeError; a strategy of
\* the requested kind is returned when reward_params is a mapping or the
\* type is "x_pos" or None.
C9_RewardDispatchWithParams ==
    last.op = "__init__" =>
        /\ DispatchErrors
        /\ (~DispatchFails /\ NeedsParams /\ IsNone(args.reward_params)) =>
               (last.exc = TypeError /\ phase = "failed")
        /\ (~DispatchFails /\ ~(NeedsParams /\ IsNone(args.reward_params))) =>
               StrategyReturned

\* a velocity reward built on the index of the pelvis-x velocity
C9_Witness ==
    /\ last.op = "__init__"
    /\ args.reward_type = Some("target_velocity")
    /\ _reward_function = Some(Strategy("TargetVelocityReward", Some(1)))

\* the observation re-derived from the simulator's state
ReadBack == _create_observation(BuildObs(args.observation_spec, _data), FALSE, mean_grf)

\* after _init_sim_from_obs(obs), with foot forces disabled, the re-derived
\* observation equals obs in every joint-position and joint-velocity slot
RoundTrips ==
    LET obs == Val(last.arg)
        kinds == FlatKinds(args.observation_spec)
    IN  \A j \in 1..Len(obs) :
            (j + 2 <= Len(kinds) /\ kinds[j + 2] \in {JOINT_POS, JOINT_VEL}) =>
                (j <= Len(ReadBack) /\ ReadBack[j] = obs[j])

AgentObsGiven ==
    /\ AfterSetupObs
    /\ ~_use_foot_forces
    /\ Len(Val(last.arg)) = FlatLen(args.observation_spec) - 2

\* C10 as claimed: for every agent-facing observation the round trip
\* reproduces every joint channel.
C10_RoundTrip == AgentObsGiven => RoundTrips

\* C10 amended: the round trip reproduces every joint channel when every
\* entry of the observation specification is one scalar slot and none is a
\* site rotation.
C10_RoundTripScalarSpec ==
    (/\ AgentObsGiven
     /\ OneSlotEach(args.observation_spec)
     /\ \A i \in 1..Len(args.observation_spec) : args.observation_spec[i].ot # SITE_ROT)
        => (last.exc = NoExc /\ RoundTrips)

\* a round trip of an observation with two different joint values
C10_Witness ==
    /\ AgentObsGiven
    /\ args.observation_spec = SpecPlanar
    /\ Val(last.arg) = <<1, 2>>
    /\ ReadBack = <<1, 2>>

(***************************************************************************)
(* Properties of _init_sim_from_obs and of the ground-force averager.      *)
(***************************************************************************)
\* the observation has fewer than len(observation_spec) - 2 entries
ShortObs == Len(Val(last.arg)) + 2 < Len(args.observation_spec)
LongObs == Len(Val(last.arg)) + 2 > Len(args.observation_spec)
NoSiteRot(spec) == \A i \in 1..Len(spec) : spec[i].ot # SITE_ROT
NumHandled(spec) == Cardinality({i \in 1..Len(spec) : Handled(spec[i])})
\* the position of the first entry set_sim_state cannot take from a 1-D
\* observation, len(spec) + 1 without one
FirstSiteRot(spec) ==
    IF NoSiteRot(spec) THEN Len(spec) + 1
    ELSE CHOOSE i \in 1..Len(spec) :
            spec[i].ot = SITE_ROT /\ \A j \in 1..(i - 1) : spec[j].ot # SITE_ROT

\* set_sim_state was handed exactly len(observation_spec) entries, the two
\* placeholders followed by the observation: it wrote them to every entry
\* up to the first site rotation, and failed only there
Delegated ==
    LET spec == args.observation_spec
        sample == <<0, 0>> \o Val(last.arg)
    IN  /\ NoSiteRot(spec) =>
              (last.exc = NoExc /\ Count(last.trace, "write") = NumHandled(spec))
        /\ ~NoSiteRot(spec) => last.exc = AssertionError
        /\ \A i \in 1..(FirstSiteRot(spec) - 1) :
              IsJoint(spec[i]) =>
                  _data[spec[i].name, FieldOf(spec[i].ot)] = Scalar(sample[i])

\* C11 as claimed: for a 1-D observation of any length _init_sim_from_obs
\* does not fail: it hands set_sim_state exactly len(observation_spec)
\* entries, the two zero placeholders first, a longer observation truncated
\* and a shorter one padded.
C11_TruncateOrPad ==
    AfterSetupObs =>
        /\ last.exc = NoExc \/ ~NoSiteRot(args.observation_spec)
        /\ ~ShortObs => Delegated

\* C11 amended: an observation of at least len(observation_spec) - 2
\* entries is handed to set_sim_state as exactly len(observation_spec)
\* entries, the two zero placeholders first and the surplus cut off; a
\* shorter one is not padded: the call raises AssertionError and writes
\* nothing to the simulator.
C11_TruncateOrReject ==
    AfterSetupObs =>
        /\ ShortObs => (last.exc = AssertionError /\ Count(last.trace, "write") = 0)
        /\ ~ShortObs => Delegated

\* an observation one entry too long, set with its last entry cut off
C11_Witness ==
    /\ AfterSetupObs
    /\ args.observation_spec = SpecPlanar
    /\ LongObs
    /\ last.exc = NoExc
    /\ Count(last.trace, "write") = NumHandled(SpecPlanar)
    /\ Val(last.arg)[1] = 2
    /\ ReadBack = SliceTo(Val(last.arg), Len(SpecPlanar) - 2)

\* the trailing 12 entries of an observation
ForcePart(ret) == SubSeq(ret, Len(ret) - GrfSize + 1, Len(ret))
\* the componentwise mean of a list of readings, scaled by 1/1000
ScaledMean(rows) ==
    [c \in 1..GrfSize |-> (SumAt(rows, c) \div Len(rows)) \div GrfScale]

\* a _simulation_post_step with foot forces enabled feeds exactly one
\* 12-component reading into the averager
OneReadingPerStep ==
    (last'.op = "_simulation_post_step" /\ _use_foot_forces) =>
        /\ Len(last'.arg) = GrfSize
        /\ last'.trace = <<"update_stats">>
        /\ mean_grf' = LastRows(Append(mean_grf, last'.arg), args.n_substeps)
\* _create_observation leaves the averager as it was
ObservationKeepsAverager ==
    last'.op = "_create_observation" => mean_grf' = mean_grf
\* an observation assembled with foot forces after at least k readings
ObservedAfter(k) ==
    /\ last'.op = "_create_observation"
    /\ _use_foot_forces
    /\ Len(grf_readings') >= k

SetupKeepsAverager == last'.op = "setup" => mean_grf' = mean_grf
\* the first observation assembled after a setup, with foot forces
FirstObservationAfterSetup ==
    /\ last.op = "setup"
    /\ last'.op = "_create_observation"
    /\ _use_foot_forces

\* C13: setup leaves the windowed ground-force averager unchanged in every
\* branch, so with foot forces enabled the force part of the first
\* observation assembled after a reset is the scaled mean of the window as
\* it was before the reset: of the last N readings taken before it, once N
\* readings were taken.
C13_SetupKeepsAverager ==
    [][/\ SetupKeepsAverager
       /\ FirstObservationAfterSetup =>
              /\ ForcePart(last'.ret) =
                     [c \in 1..GrfSize |-> WindowMean(mean_grf)[c] \div GrfScale]
              /\ Len(grf_readings) = args.n_substeps =>
                     ForcePart(last'.ret) = ScaledMean(grf_readings)]_vars

\* a random-start reset after a full window of loaded readings: the
\* averager still holds them
C13_Witness ==
    /\ last.op = "setup"
    /\ last.branch = "random"
    /\ last.exc = NoExc
    /\ _use_foot_forces
    /\ Len(grf_readings) = args.n_substeps
    /\ mean_grf = grf_readings
    /\ ScaledMean(mean_grf) # Repeat(0, GrfSize)

=============================================================================
